---- MODULE Spec2Model ----
(***************************************************************************)
(* Model of the UTXO-set scan of src/rpc/blockchain.cpp: the three process *)
(* wide atomics g_scan_progress, g_scan_in_progress, g_should_abort_scan,  *)
(* the RAII guard CoinsViewScanReserver, the scan loop FindScriptPubKey    *)
(* and the RPC handler scantxoutset with its actions start, status, abort. *)
(*                                                                         *)
(* The invocations in flight on the RPC worker threads are the processes   *)
(* of the model.  The threads of the pool are interchangeable, so the      *)
(* invocations in flight form a bag of records, one record per invocation  *)
(* holding its position in the handler and its locals.  Every access to    *)
(* one of the atomics is a step of its own; the code between two accesses  *)
(* that touches only locals of the invocation (the cursor, count,          *)
(* out_results) is folded into the step of the access that follows it.     *)
(* What an invocation returned is kept in `returned` until the next one    *)
(* returns.                                                                *)
(***************************************************************************)
EXTENDS Integers, FiniteSets, Sequences, Bags, TLC

\* ---------------------------------------------------------------- bounds
NumProcs == 3
MaxCalls == 4
NumExports == 2
MaxExports == 3

\* ------------------------------------------------------ program constants
AbortBatch    == 8192
ProgressBatch == 256

\* ------------------------------------------------------------ coin store
\* A store is described by its number of records and by the 1-based
\* position of a record that cannot be decoded (0: none).  The cursor
\* visits the records in key order; record i of a store of n records has
\* the key whose first two bytes are KeyHigh(n, i), which is non-decreasing
\* in i because the key order is the byte order of the serialized outpoint.
\* The transaction ids of a store fall into four clusters of equal size.
BigStore == AbortBatch + 300

Stores ==
    { [size |-> 0,        corrupt |-> 0],
      [size |-> 3,        corrupt |-> 0],
      [size |-> 3,        corrupt |-> 2],
      [size |-> BigStore, corrupt |-> 0] }

KeyHigh(n, i) == (((i - 1) * 4) \div n) * 16384

\* scriptPubKey of the record at position i: scripts 1 and 2 are the ones a
\* request may ask for, 0 stands for every other script.
Script(i) ==
    IF i % 4096 = 2 THEN 1
    ELSE IF i % AbortBatch = 0 THEN 2
    ELSE 0

\* value in satoshis and creation height of the coin at position i
Amount(i) == 60000000 + (i % 1000)
Height(i) == 1 + (i % 7)

\* A scanobject is a descriptor: one that expands to a set of scripts, or
\* one that EvalDescriptorStringOrObject rejects.
Desc(scripts) == [ok |-> TRUE, scripts |-> scripts]
BadDesc == [ok |-> FALSE, scripts |-> {}]

\* the requests of a start invocation: without the scanobjects argument,
\* or with an array of scanobjects
Requests ==
    { [hasObjects |-> FALSE, scanobjects |-> <<>>],
      [hasObjects |-> TRUE,  scanobjects |-> <<>>],
      [hasObjects |-> TRUE,  scanobjects |-> <<Desc({1}), Desc({1, 2})>>],
      [hasObjects |-> TRUE,  scanobjects |-> <<Desc({1}), BadDesc>>],
      [hasObjects |-> TRUE,  scanobjects |-> <<BadDesc, Desc({2})>>] }

\* InferDescriptor(script, provider)->ToString(): the annotation of a script
\* expanded from the k-th scan object, whose provider it is inferred with
Inferred(script, k) == <<script, k>>

\* descriptors.emplace(script, inferred) for the scripts of one scan object:
\* a key the map holds already keeps its value
Emplace_assigning(m, scripts, k) ==
    [s \in DOMAIN m \cup scripts |->
        IF s \in scripts THEN Inferred(s, k) ELSE m[s]]
Emplace(m, scripts, k) ==
    [s \in DOMAIN m \cup scripts |->
        IF s \in DOMAIN m THEN m[s] ELSE Inferred(s, k)]

\* the map descriptors once the loop has gone through the scan objects from
\* the k-th on, starting with the map m
RECURSIVE Descriptors(_, _, _)
Descriptors(objs, k, m) ==
    IF k > Len(objs) THEN m
    ELSE Descriptors(objs, k + 1, Emplace(m, objs[k].scripts, k))

\* scantxoutset, the loop over the scan objects: the needle set and the map
\* descriptors, unless the expansion of a descriptor throws
RECURSIVE Expand(_)
Expand_skipping(objs) ==
    [ok          |-> TRUE,
     needles     |-> UNION {objs[k].scripts : k \in {j \in 1..Len(objs) : objs[j].ok}},
     descriptors |-> <<>>]
Expand(objs) ==
    IF objs = <<>> THEN [ok |-> TRUE, needles |-> {}, descriptors |-> <<>>]
    ELSE IF ~Head(objs).ok THEN [ok |-> FALSE, needles |-> {}, descriptors |-> <<>>]
    ELSE LET rest == Expand(Tail(objs))
         IN [ok          |-> rest.ok,
             needles     |-> IF rest.ok THEN Head(objs).scripts \cup rest.needles
                             ELSE {},
             descriptors |-> IF rest.ok THEN Descriptors(objs, 1, <<>>)
                             ELSE <<>>]

\* ForceFlushStateToDisk(): the coins cache is written out to the coin
\* database; the mapping from outpoint to coin that the store holds is the
\* one it held
StoreBehindFlush_emptied(db) == [size |-> 0, corrupt |-> 0]
StoreBehindFlush(db) == db

\* --------------------------------------------------------------- helpers
\* (int)(high * 100.0 / 65536.0 + 0.5)
ProgressOf(high) == (200 * high + 65536) \div 131072

\* the records of the largest store whose script is not script 0
ScriptHolders == { i \in 1..BigStore : Script(i) # 0 }

\* needles.count(coin.out.scriptPubKey) over the records lo..hi; when script
\* 0 is not a needle, only a record of ScriptHolders can match
Matches_strict(needles, lo, hi) == { i \in (lo + 1)..hi : Script(i) \in needles }
Matches(needles, lo, hi) ==
    IF 0 \in needles
    THEN { i \in lo..hi : Script(i) \in needles }
    ELSE { i \in ScriptHolders : lo <= i /\ i <= hi /\ Script(i) \in needles }

\* g_scan_in_progress.exchange(true): the value the flag holds afterwards
Exchanged_toggled(old) == ~old
Exchanged(old) == TRUE

\* reserve() is one exchange: it returns at once, whatever the flag held
ReserveReturns_whenFree(old) == ~old
ReserveReturns(old) == TRUE

\* g_scan_in_progress.exchange(true) returned false: the caller owns the flag
ReserveAcquired_ignored(old) == TRUE
ReserveAcquired(old) == ~old

\* ~CoinsViewScanReserver: releases iff this guard reserved, whether the
\* scope is left by return or by exception
Unwind_manual(could, thrown) == IF could /\ ~thrown THEN "release" ELSE "done"
Unwind(could, thrown) == IF could THEN "release" ELSE "done"

\* ValueFromAmount: a CAmount as the decimal number of the result, whole
\* coins and eight fractional digits
COIN == 100000000
ValueFromAmount(amount) == [whole |-> amount \div COIN, frac |-> amount % COIN]

\* scantxoutset, the loop over coins: one entry of unspents per element of
\* the map, in key order, and total_in accumulated along the way
\* active_chainstate.m_chain.Tip() when the coin store is db: connecting or
\* disconnecting a block changes the store and the tip together, under
\* cs_main, and the flush makes db the coins of that tip
ChainTip(db) == [nHeight |-> db.size, hash |-> db]
NoTip == [nHeight |-> -1, hash |-> [size |-> -1, corrupt |-> 0]]

\* the block index entry whose nHeight and hash go into the result: the one
\* the local tip points to, not the tip of the chain by then
ReportedTip_reread(tip, now) == now
ReportedTip(tip, now) == tip

RECURSIVE Unspents(_)
Unspents(coins) ==
    IF coins = {} THEN <<>>
    ELSE LET i == CHOOSE m \in coins : \A k \in coins : m <= k
         IN <<[outpoint |-> i,
               amount   |-> ValueFromAmount(Amount(i)),
               height   |-> Height(i)]>> \o Unspents(coins \ {i})

RECURSIVE TotalIn(_)
TotalIn_last(coins) ==
    IF coins = {} THEN 0
    ELSE LET i == CHOOSE m \in coins : \A k \in coins : m >= k
         IN Amount(i)
TotalIn(coins) ==
    IF coins = {} THEN 0
    ELSE LET i == CHOOSE m \in coins : \A k \in coins : m <= k
         IN Amount(i) + TotalIn(coins \ {i})

\* the result object of start
ResultObject(res, count, tip, coins) ==
    [success      |-> res,
     txouts       |-> count,
     height       |-> tip.nHeight,
     bestblock    |-> tip.hash,
     unspents     |-> Unspents(coins),
     total_amount |-> ValueFromAmount(TotalIn(coins))]

NoRet == [kind |-> "none", b |-> FALSE, n |-> 0]
Ret(k, b, n) == [kind |-> k, b |-> b, n |-> n]
NoCursor == [size |-> 0, corrupt |-> 0]
NoEntry == <<0, FALSE, FALSE>>

VARIABLES
    g_scan_progress,      \* std::atomic<int>
    g_scan_in_progress,   \* std::atomic<bool>
    g_should_abort_scan,  \* std::atomic<bool>
    coinsdb,              \* the coin store the node holds
    threads,              \* the invocations in flight
    returned,             \* the invocation that returned last
    calls,                \* number of invocations issued so far
    lastReport,           \* last percentage reported within the scan, or -1
    cs_main,              \* the lock cs_main is held
    dir,                  \* the files at the final and at the temporary path
    files,                \* the contents of the files, by file
    exports,              \* the dumptxoutset invocations in flight
    exported              \* the dumptxoutset invocation that returned last

globals == <<g_scan_progress, g_scan_in_progress, g_should_abort_scan>>
scanvars == <<g_scan_progress, g_scan_in_progress, g_should_abort_scan,
              threads, returned, lastReport>>
dumpvars == <<cs_main, dir, files, exports, exported>>
vars == <<g_scan_progress, g_scan_in_progress, g_should_abort_scan, coinsdb,
          threads, returned, calls, lastReport,
          cs_main, dir, files, exports, exported>>

\* An invocation entering the handler with request.params[0] = a.  The
\* fields up to ret are the program's; the others record history.
NewCall(a) ==
    [pc              |-> "reserve",
     action          |-> a,
     m_could_reserve |-> FALSE,   \* CoinsViewScanReserver::m_could_reserve
     needles         |-> {},      \* start: the needle set
     descriptors     |-> <<>>,    \* start: the annotation of each needle
     cursor          |-> NoCursor,\* start: the store the cursor iterates
     tip             |-> NoTip,   \* start: the block index entry tip points to
     count           |-> 0,       \* start: count
     coins           |-> {},      \* start: out_results, as cursor positions
     ret             |-> NoRet,   \* what it is about to return or throw
     opened          |-> FALSE,   \* it has entered the cs_main block
     shutdown        |-> FALSE,   \* interruption_point() found the server stopping
     steps           |-> 0,       \* steps the invocation has taken
     badDesc         |-> FALSE,   \* start: one of its scanobjects is rejected
     probed          |-> "none",  \* who owned g_scan_in_progress at the exchange
     nrel            |-> 0,       \* releases performed by the invocation
     acked           |-> -1,      \* start: batch in which an abort returned true
     alone           |-> FALSE,   \* abort: no other invocation overlapped it
     entry           |-> NoEntry] \* abort: the three atomics when it began

Running == BagToSet(threads)

\* the bag of invocations once t has taken a step that made it u, and with
\* t gone
Becomes(t, u) ==
    (threads (-) SetToBag({t})) (+) SetToBag({[u EXCEPT !.steps = @ + 1]})
Without(t)    == threads (-) SetToBag({t})

\* the bag B with each invocation x in it replaced by f[x]
MapBag(f, B) ==
    [r \in {f[x] : x \in DOMAIN B} |->
        BagCardinality([x \in {y \in DOMAIN B : f[y] = r} |-> B[x]])]

\* the invocations of B once another invocation has begun beside them
Overlapped(B) ==
    MapBag([x \in DOMAIN B |-> [x EXCEPT !.alone = FALSE, !.entry = NoEntry]], B)

\* number of invocations in flight among those of S
NumberIn(S) ==
    BagCardinality([x \in S \cap DOMAIN threads |-> threads[x]])

\* t owns g_scan_in_progress: its exchange returned false and it has not
\* yet stored false
Owns(t) ==
    \/ t.pc = "check"
    \/ t.m_could_reserve /\ t.pc # "release2"

\* a start invocation between its successful reserve() and its release
StartHolds(t) == t.action = "start" /\ t.m_could_reserve /\ Owns(t)

\* the scan body FindScriptPubKey is executing
InFind(t) == t.pc \in {"find", "loop", "interrupt", "progress"}

OwnerKind ==
    IF \E t \in Running : Owns(t)
    THEN (CHOOSE t \in Running : Owns(t)).action
    ELSE IF g_scan_in_progress THEN "orphan" ELSE "none"

\* the record of an invocation that returns r: its action, the locals that
\* make up the result, and its history
Outcome(t, r, kept, exhausted) ==
    [action    |-> t.action,
     ret       |-> r,
     result    |-> IF r.kind = "result"
                   THEN ResultObject(r.b, t.count,
                                     ReportedTip(t.tip, ChainTip(coinsdb)),
                                     t.coins)
                   ELSE ResultObject(FALSE, 0, NoTip, {}),
     could     |-> t.m_could_reserve,
     needles   |-> t.needles,
     descriptors |-> t.descriptors,
     count     |-> t.count,
     coins     |-> t.coins,
     corrupt   |-> t.cursor.corrupt,
     cursor    |-> t.cursor,
     opened    |-> t.opened,
     shutdown  |-> t.shutdown,
     steps     |-> t.steps + 1,
     badDesc   |-> t.badDesc,
     probed    |-> t.probed,
     nrel      |-> t.nrel,
     acked     |-> t.acked,
     alone     |-> t.alone,
     kept      |-> kept,
     exhausted |-> exhausted]

NoOutcome == Outcome(NewCall("none"), NoRet, FALSE, FALSE)

\* The invocation t, its locals now those of u, leaves the scope of its
\* CoinsViewScanReserver with r as the value returned or thrown: through
\* the stores of the destructor if it reserved, straight back to the
\* caller if not.
Leave(t, u, r, thrown) ==
    IF Unwind(u.m_could_reserve, thrown) = "release"
    THEN /\ threads' = Becomes(t, [u EXCEPT !.pc = "release", !.ret = r])
         /\ UNCHANGED returned
    ELSE /\ threads' = Without(t)
         /\ returned' = Outcome(u, r, globals' = t.entry, FALSE)

\* ------------------------------------------------- dumptxoutset, the data
\* CreateUTXOSnapshot calls the interruption point in front of the records
\* whose 0-based index is a multiple of 5000; the records between two calls
\* are a chunk of the file, the metadata is chunk 0.
SnapshotBatch == 5000
Chunks_whole(n) == n \div SnapshotBatch
Chunks(n) == (n + SnapshotBatch - 1) \div SnapshotBatch

\* A file is a sequence of cells: the metadata or the records of chunk k as
\* an exporter wrote them from its view of the store, or a hole that a
\* write behind the end of the file leaves.
Cell(view, k) == [view |-> view, chunk |-> k]
Hole == Cell(NoCursor, -1)

\* the file once cell c is written at offset pos
WriteAt(content, pos, c) ==
    IF pos < Len(content)
    THEN [content EXCEPT ![pos + 1] = c]
    ELSE content \o [k \in 1..(pos - Len(content)) |-> Hole] \o <<c>>

\* the number of (Outpoint, Coin) records a cell of a file holds: the loop
\* writes the records of the chunk whose key and value decode and passes
\* over the one that does not; the metadata and a hole hold none
RecordsOf(c) ==
    IF c.chunk <= 0 THEN 0
    ELSE LET lo == (c.chunk - 1) * SnapshotBatch + 1
             hi == IF c.chunk * SnapshotBatch < c.view.size
                   THEN c.chunk * SnapshotBatch ELSE c.view.size
         IN (hi - lo + 1) - (IF c.view.corrupt \in lo..hi THEN 1 ELSE 0)

\* fs::exists(path)
FinalExists_temp(d) == d.temp # 0
FinalExists(d) == d.final # 0

\* an exception leaves dumptxoutset before fs::rename is reached
RenameReached_always(thrown) == TRUE
RenameReached(thrown) == ~thrown

\* the block of CreateUTXOSnapshot that holds cs_main: the statements at
\* which an export stands with the lock held
InLockScope_statsOnly(pc) == pc = "stats"
InLockScope(pc) == pc \in {"stats", "cursor"}

\* A dumptxoutset invocation.  The fields up to cursor are the program's;
\* the others record history.
NewExport ==
    [pc      |-> "fopen",
     fd      |-> 0,         \* afile: the file it has open, 0 for a null handle
     pos     |-> 0,         \* afile: its offset, in cells
     iter    |-> 0,         \* chunks of records streamed
     written |-> 0,         \* records it has written to afile
     polled  |-> 0,         \* calls of the interruption point in the loop
     stats   |-> NoCursor,  \* the store GetUTXOStats read
     cursor  |-> NoCursor,  \* the store pcursor iterates
     failed  |-> "none",    \* the failure it met
     existed |-> FALSE,     \* the final path existed when it began
     fopened |-> FALSE,     \* it has called fopen on the temporary path
     locked  |-> FALSE,     \* it has taken cs_main
     atLock  |-> NoCursor,  \* the store when it took cs_main
     renamed |-> FALSE,     \* it has called fs::rename
     steps   |-> 1]

\* the record of a dumptxoutset invocation that returns
Exported(t, kind) ==
    [action        |-> "export",
     kind          |-> kind,
     why           |-> t.failed,
     coins_written |-> t.stats.size,
     base_hash     |-> ChainTip(t.stats).hash,
     base_height   |-> ChainTip(t.stats).nHeight,
     path          |-> "path",
     written       |-> t.written,
     polled        |-> t.polled,
     existed       |-> t.existed,
     fopened       |-> t.fopened,
     locked        |-> t.locked,
     renamed       |-> t.renamed,
     steps         |-> t.steps]

NoExported == [Exported(NewExport, "none") EXCEPT !.action = "none"]

Exporting == BagToSet(exports)

\* the bag of exports once t has taken a step that made it u, and with t gone
ExportBecomes(t, u) ==
    (exports (-) SetToBag({t})) (+) SetToBag({[u EXCEPT !.steps = @ + 1]})
ExportWithout(t) == exports (-) SetToBag({t})

\* the export t, its locals now those of u, meets the failure why: the
\* exception leaves CreateUTXOSnapshot and dumptxoutset, closing afile
ExportThrows(t, u, why) ==
    IF RenameReached(TRUE)
    THEN /\ exports' = ExportBecomes(t, [u EXCEPT !.pc = "rename", !.failed = why])
         /\ UNCHANGED exported
    ELSE /\ exports' = ExportWithout(t)
         /\ exported' = Exported([u EXCEPT !.failed = why, !.steps = @ + 1],
                                  "error")

Init ==
    /\ cs_main = FALSE
    /\ dir = [final |-> 0, temp |-> 0]
    /\ files = <<>>
    /\ exports = EmptyBag
    /\ exported = NoExported
    /\ g_scan_progress = 0
    /\ g_scan_in_progress = FALSE
    /\ g_should_abort_scan = FALSE
    /\ coinsdb \in Stores
    /\ threads = EmptyBag
    /\ returned = NoOutcome
    /\ calls = 0
    /\ lastReport = -1

\* An RPC thread picks up a scantxoutset request and enters reserve():
\* g_scan_in_progress.exchange(true).
Call(a) ==
    /\ BagCardinality(threads) < NumProcs
    /\ calls < MaxCalls
    /\ ReserveReturns(g_scan_in_progress)
    /\ UNCHANGED dumpvars
    /\ calls' = calls + 1
    /\ g_scan_in_progress' = Exchanged(g_scan_in_progress)
    /\ UNCHANGED <<g_scan_progress, g_should_abort_scan, coinsdb, lastReport>>
    /\ LET others == Overlapped(threads)
           t == [NewCall(a) EXCEPT
                    !.probed = OwnerKind,
                    !.alone  = (a = "abort" /\ threads = EmptyBag),
                    !.entry  = IF a = "abort" /\ threads = EmptyBag
                               THEN globals ELSE NoEntry]
       IN
       IF ReserveAcquired(g_scan_in_progress)
       THEN /\ threads' = others (+) SetToBag({[t EXCEPT !.pc = "check",
                                                         !.steps = 1]})
            /\ UNCHANGED returned
       ELSE IF a = "start"
       THEN \* throw JSONRPCError "Scan already in progress"
            /\ threads' = others
            /\ returned' = Outcome(t, Ret("busy", FALSE, 0), FALSE, FALSE)
       ELSE /\ threads' = others (+) SetToBag({[t EXCEPT !.steps = 1, !.pc =
                            IF a = "status" THEN "status_read" ELSE "abort_set"]})
            /\ UNCHANGED returned

\* reserve(), second half: CHECK_NONFATAL(g_scan_progress == 0), then
\* m_could_reserve = true; followed by the handler up to its next access
\* to shared state.
Check(t) ==
    /\ t.pc = "check"
    /\ UNCHANGED dumpvars
    /\ UNCHANGED <<globals, coinsdb, calls>>
    /\ IF g_scan_progress # 0
       THEN \* NonFatalCheckError leaves reserve() before m_could_reserve is set
            /\ UNCHANGED lastReport
            /\ Leave(t, t, Ret("error", FALSE, 0), TRUE)
       ELSE LET u == [t EXCEPT !.m_could_reserve = TRUE] IN
            CASE t.action = "status" ->
                   /\ UNCHANGED lastReport
                   /\ Leave(t, u, Ret("null", FALSE, 0), FALSE)
              [] t.action = "abort" ->
                   /\ UNCHANGED lastReport
                   /\ Leave(t, u, Ret("bool", FALSE, 0), FALSE)
              [] t.action = "start" ->
                   /\ lastReport' = -1
                   /\ \E req \in Requests :
                        LET v == [u EXCEPT !.badDesc =
                                     /\ req.hasObjects
                                     /\ \E k \in 1..Len(req.scanobjects) :
                                           ~req.scanobjects[k].ok]
                        IN
                        IF ~req.hasObjects \/ ~Expand(req.scanobjects).ok
                        THEN \* throw JSONRPCError
                             Leave(t, v, Ret("error", FALSE, 0), TRUE)
                        ELSE /\ threads' = Becomes(t, [v EXCEPT
                                  !.pc = "reset_abort",
                                  !.needles = Expand(req.scanobjects).needles,
                                  !.descriptors =
                                      Expand(req.scanobjects).descriptors])
                             /\ UNCHANGED returned

\* status, reserve() failed: result.pushKV("progress", g_scan_progress)
StatusRead(t) ==
    /\ t.pc = "status_read"
    /\ UNCHANGED dumpvars
    /\ lastReport' = IF \E q \in Running : StartHolds(q)
                     THEN g_scan_progress
                     ELSE lastReport
    /\ returned' = Outcome(t, Ret("progress", FALSE, g_scan_progress), FALSE,
                           \E q \in Running : /\ StartHolds(q)
                                              /\ q.pc = "release"
                                              /\ q.ret.kind = "result"
                                              /\ q.ret.b)
    /\ threads' = Without(t)
    /\ UNCHANGED <<globals, coinsdb, calls>>

\* abort, reserve() failed: g_should_abort_scan = true; return true
AbortSet(t) ==
    /\ t.pc = "abort_set"
    /\ UNCHANGED dumpvars
    /\ g_should_abort_scan' = TRUE
    /\ UNCHANGED <<g_scan_progress, g_scan_in_progress>>
    /\ returned' = Outcome(t, Ret("bool", TRUE, 0), globals' = t.entry, FALSE)
    /\ threads' = MapBag([x \in DOMAIN Without(t) |->
                             IF StartHolds(x) /\ x.acked = -1
                             THEN [x EXCEPT !.acked = x.count \div AbortBatch]
                             ELSE x],
                         Without(t))
    /\ UNCHANGED <<coinsdb, calls, lastReport>>

\* start: g_should_abort_scan = false
ResetAbort(t) ==
    /\ t.pc = "reset_abort"
    /\ UNCHANGED dumpvars
    /\ g_should_abort_scan' = FALSE
    /\ threads' = Becomes(t, [t EXCEPT !.pc = "cursor"])
    /\ UNCHANGED <<g_scan_progress, g_scan_in_progress, coinsdb, returned,
                   calls, lastReport>>

\* start: LOCK(cs_main), flush, open the cursor, read the tip, and the end
\* of the block that holds the lock
OpenCursor(t) ==
    /\ t.pc = "cursor"
    /\ ~cs_main
    /\ UNCHANGED dumpvars
    /\ coinsdb' = StoreBehindFlush(coinsdb)
    /\ threads' = Becomes(t, [t EXCEPT !.pc = "find", !.cursor = coinsdb',
                                       !.tip = ChainTip(coinsdb'),
                                       !.opened = TRUE])
    /\ UNCHANGED <<globals, returned, calls, lastReport>>

\* FindScriptPubKey: scan_progress = 0; count = 0
FindBegin(t) ==
    /\ t.pc = "find"
    /\ UNCHANGED dumpvars
    /\ g_scan_progress' = 0
    /\ threads' = Becomes(t, [t EXCEPT !.pc = "loop", !.count = 0])
    /\ UNCHANGED <<g_scan_in_progress, g_should_abort_scan, coinsdb, returned,
                   calls, lastReport>>

\* position of the next record at which the loop touches shared state, or
\* the last record
NextStop_coarse(c, n) ==
    IF (c \div AbortBatch + 1) * AbortBatch < n
    THEN (c \div AbortBatch + 1) * AbortBatch
    ELSE n
NextStop(c, n) ==
    IF (c \div ProgressBatch + 1) * ProgressBatch < n
    THEN (c \div ProgressBatch + 1) * ProgressBatch
    ELSE n

\* the last record tested against the needles when the loop arrives at the
\* checkpoint of record stop: the abort flag is read behind ++count and in
\* front of needles.count(...)
TestedBefore_including(stop) == stop
TestedBefore(stop) == stop - 1

\* FindScriptPubKey: the loop iterations from the record after count up to
\* the next access to shared state: the record at which count % 8192 == 0
\* or count % 256 == 0, or the store of 100 behind the last record.
Loop(t) ==
    /\ t.pc = "loop"
    /\ UNCHANGED dumpvars
    /\ UNCHANGED <<g_scan_in_progress, g_should_abort_scan, coinsdb, calls,
                   lastReport>>
    /\ LET n    == t.cursor.size
           bad  == t.cursor.corrupt
           c    == t.count
           stop == NextStop(c, n)
       IN
       IF bad > c /\ bad <= stop
       THEN \* GetKey or GetValue failed: return false, before ++count
            /\ UNCHANGED g_scan_progress
            /\ Leave(t, [t EXCEPT
                         !.count = bad - 1,
                         !.coins = @ \cup Matches(t.needles, c + 1, bad - 1)],
                     Ret("result", FALSE, bad - 1), FALSE)
       ELSE IF stop > c /\ stop % AbortBatch = 0
       THEN \* ++count % 8192 == 0: stop in front of interruption_point()
            /\ threads' = Becomes(t, [t EXCEPT
                   !.count = stop,
                   !.coins = @ \cup Matches(t.needles, c + 1, TestedBefore(stop)),
                   !.pc    = "interrupt"])
            /\ UNCHANGED <<g_scan_progress, returned>>
       ELSE IF stop > c /\ stop % ProgressBatch = 0
       THEN \* count % 256 == 0: update the progress reference
            /\ threads' = Becomes(t, [t EXCEPT
                   !.count = stop,
                   !.coins = @ \cup Matches(t.needles, c + 1, stop)])
            /\ g_scan_progress' = ProgressOf(KeyHigh(n, stop))
            /\ UNCHANGED returned
       ELSE \* the cursor is exhausted: scan_progress = 100; return true
            /\ g_scan_progress' = 100
            /\ Leave(t, [t EXCEPT
                         !.count = n,
                         !.coins = @ \cup Matches(t.needles, c + 1, n)],
                     Ret("result", TRUE, n), FALSE)

\* FindScriptPubKey at count % 8192 == 0: interruption_point(), which throws
\* when the RPC server is shutting down, then the read of should_abort
Interrupt(t) ==
    /\ t.pc = "interrupt"
    /\ UNCHANGED dumpvars
    /\ UNCHANGED <<globals, coinsdb, calls, lastReport>>
    /\ \E shutdown \in BOOLEAN :
         IF shutdown
         THEN Leave(t, [t EXCEPT !.shutdown = TRUE], Ret("error", FALSE, 0), TRUE)
         ELSE IF g_should_abort_scan
         THEN Leave(t, t, Ret("result", FALSE, t.count), FALSE)
         ELSE /\ threads' = Becomes(t, [t EXCEPT !.pc = "progress"])
              /\ UNCHANGED returned

\* FindScriptPubKey, rest of the iteration at count % 8192 == 0: progress
\* update, needle test, cursor->Next()
Progress(t) ==
    /\ t.pc = "progress"
    /\ UNCHANGED dumpvars
    /\ g_scan_progress' = ProgressOf(KeyHigh(t.cursor.size, t.count))
    /\ threads' = Becomes(t, [t EXCEPT
           !.coins = @ \cup Matches(t.needles, t.count, t.count),
           !.pc    = "loop"])
    /\ UNCHANGED <<g_scan_in_progress, g_should_abort_scan, coinsdb, returned,
                   calls, lastReport>>

\* ~CoinsViewScanReserver: g_scan_in_progress = false
Release1(t) ==
    /\ t.pc = "release"
    /\ UNCHANGED dumpvars
    /\ g_scan_in_progress' = FALSE
    /\ threads' = Becomes(t, [t EXCEPT !.pc = "release2", !.nrel = @ + 1])
    /\ lastReport' = IF t.action = "start" THEN -1 ELSE lastReport
    /\ UNCHANGED <<g_scan_progress, g_should_abort_scan, coinsdb, returned,
                   calls>>

\* ~CoinsViewScanReserver: g_scan_progress = 0, and the handler returns
Release2(t) ==
    /\ t.pc = "release2"
    /\ UNCHANGED dumpvars
    /\ g_scan_progress' = 0
    /\ UNCHANGED <<g_scan_in_progress, g_should_abort_scan>>
    /\ returned' = Outcome(t, t.ret, globals' = t.entry, FALSE)
    /\ threads' = Without(t)
    /\ UNCHANGED <<coinsdb, calls, lastReport>>

Next ==
    \/ \E a \in {"start", "status", "abort"} : Call(a)
    \/ \E t \in Running : Check(t)
    \/ \E t \in Running : StatusRead(t)
    \/ \E t \in Running : AbortSet(t)
    \/ \E t \in Running : ResetAbort(t)
    \/ \E t \in Running : OpenCursor(t)
    \/ \E t \in Running : FindBegin(t)
    \/ \E t \in Running : Loop(t)
    \/ \E t \in Running : Interrupt(t)
    \/ \E t \in Running : Progress(t)
    \/ \E t \in Running : Release1(t)
    \/ \E t \in Running : Release2(t)

Spec == Init /\ [][Next]_vars

\* ---------------------------------------------- dumptxoutset, the actions
\* An RPC thread picks up a dumptxoutset request: fs::exists(path), and
\* the exception if it does.
DumpCall ==
    /\ BagCardinality(exports) < NumExports
    /\ calls < MaxExports
    /\ calls' = calls + 1
    /\ UNCHANGED <<scanvars, coinsdb, cs_main, dir, files>>
    /\ LET t == [NewExport EXCEPT !.existed = (dir.final # 0)] IN
       IF FinalExists(dir)
       THEN /\ exported' = Exported([t EXCEPT !.failed = "exists"], "error")
            /\ UNCHANGED exports
       ELSE /\ exports' = exports (+) SetToBag({t})
            /\ UNCHANGED exported

\* fsbridge::fopen(temppath, "wb"): creates the file, or truncates the one
\* that is there; a null handle if it fails
Fopen(t) ==
    /\ t.pc = "fopen"
    /\ UNCHANGED <<scanvars, coinsdb, calls, cs_main, exported>>
    /\ \E ok \in BOOLEAN :
         IF ~ok
         THEN /\ UNCHANGED <<dir, files>>
              /\ exports' = ExportBecomes(t, [t EXCEPT !.pc = "lock",
                                                       !.fopened = TRUE])
         ELSE IF dir.temp = 0
         THEN /\ files' = Append(files, <<>>)
              /\ dir' = [dir EXCEPT !.temp = Len(files) + 1]
              /\ exports' = ExportBecomes(t, [t EXCEPT !.pc = "lock",
                                                       !.fopened = TRUE,
                                                       !.fd = Len(files) + 1])
         ELSE /\ files' = [files EXCEPT ![dir.temp] = <<>>]
              /\ UNCHANGED dir
              /\ exports' = ExportBecomes(t, [t EXCEPT !.pc = "lock",
                                                       !.fopened = TRUE,
                                                       !.fd = dir.temp])

\* CreateUTXOSnapshot: LOCK(::cs_main); chainstate.ForceFlushStateToDisk()
Lock(t) ==
    /\ t.pc = "lock"
    /\ ~cs_main
    /\ cs_main' = InLockScope("stats")
    /\ coinsdb' = StoreBehindFlush(coinsdb)
    /\ exports' = ExportBecomes(t, [t EXCEPT !.pc = "stats", !.locked = TRUE,
                                             !.atLock = coinsdb'])
    /\ UNCHANGED <<scanvars, calls, dir, files, exported>>

\* GetUTXOStats, and the exception if it fails
Stats(t) ==
    /\ t.pc = "stats"
    /\ UNCHANGED <<scanvars, coinsdb, calls, dir, files>>
    /\ \E ok \in BOOLEAN :
         IF ok
         THEN /\ exports' = ExportBecomes(t, [t EXCEPT !.pc = "cursor",
                                                       !.stats = coinsdb])
              /\ cs_main' = InLockScope("cursor")
              /\ UNCHANGED exported
         ELSE /\ cs_main' = FALSE
              /\ ExportThrows(t, t, "stats")

\* pcursor = CoinsDB().Cursor(); the tip lookup and CHECK_NONFATAL(tip);
\* the end of the cs_main block
Cursor(t) ==
    /\ t.pc = "cursor"
    /\ cs_main' = InLockScope("header")
    /\ UNCHANGED <<scanvars, coinsdb, calls, dir, files>>
    /\ \E tip \in BOOLEAN :
         IF tip
         THEN /\ exports' = ExportBecomes(t, [t EXCEPT !.pc = "header",
                                                       !.cursor = coinsdb])
              /\ UNCHANGED exported
         ELSE ExportThrows(t, [t EXCEPT !.cursor = coinsdb], "tip")

\* where the export goes behind a write: to the next chunk, or behind the
\* last one to afile.fclose() and on to fs::rename
AfterWrite(t) ==
    IF t.iter < Chunks(t.cursor.size) THEN "stream" ELSE "rename"

\* afile << metadata, which throws if the handle is null or the write fails
Header(t) ==
    /\ t.pc = "header"
    /\ UNCHANGED <<scanvars, coinsdb, calls, cs_main, dir>>
    /\ \E ok \in BOOLEAN :
         IF ok /\ t.fd # 0
         THEN /\ files' = [files EXCEPT ![t.fd] =
                               WriteAt(@, t.pos, Cell(t.stats, 0))]
              /\ exports' = ExportBecomes(t, [t EXCEPT !.pos = @ + 1,
                                                       !.pc = AfterWrite(t)])
              /\ UNCHANGED exported
         ELSE /\ UNCHANGED files
              /\ ExportThrows(t, t, "write")

\* the loop from one call of the interruption point to the next: the
\* interruption point, which throws when the RPC server is stopping, then
\* afile << key << coin for the records of the chunk that can be decoded
Stream(t) ==
    /\ t.pc = "stream"
    /\ UNCHANGED <<scanvars, coinsdb, calls, cs_main, dir>>
    /\ \E shutdown \in BOOLEAN, ok \in BOOLEAN :
         IF shutdown
         THEN /\ UNCHANGED files
              /\ ExportThrows(t, [t EXCEPT !.polled = @ + 1], "interrupt")
         ELSE IF ~ok
         THEN /\ UNCHANGED files
              /\ ExportThrows(t, [t EXCEPT !.polled = @ + 1], "write")
         ELSE LET c == Cell(t.cursor, t.iter + 1)
                  u == [t EXCEPT !.iter = @ + 1, !.pos = @ + 1,
                                 !.polled = @ + 1,
                                 !.written = @ + RecordsOf(c)] IN
              /\ files' = [files EXCEPT ![t.fd] =
                               WriteAt(@, t.pos, c)]
              /\ exports' = ExportBecomes(t, [u EXCEPT !.pc = AfterWrite(u)])
              /\ UNCHANGED exported

\* fs::rename(temppath, path), which throws if there is no file at the
\* temporary path; then the result is returned
Rename(t) ==
    /\ t.pc = "rename"
    /\ UNCHANGED <<scanvars, coinsdb, calls, cs_main, files>>
    /\ exports' = ExportWithout(t)
    /\ LET u == [t EXCEPT !.renamed = TRUE, !.steps = @ + 1] IN
       IF dir.temp = 0
       THEN /\ UNCHANGED dir
            /\ exported' = Exported([u EXCEPT !.failed =
                                IF t.failed = "none" THEN "rename" ELSE @],
                                     "error")
       ELSE /\ dir' = [final |-> dir.temp, temp |-> 0]
            /\ exported' = Exported(u, IF t.failed = "none" THEN "result"
                                                             ELSE "error")

\* the node connects or disconnects a block, under cs_main
Mutate ==
    /\ ~cs_main
    /\ coinsdb' \in Stores \ {coinsdb}
    /\ UNCHANGED <<scanvars, calls, dumpvars>>

DumpNext ==
    \/ DumpCall
    \/ \E t \in Exporting : Fopen(t)
    \/ \E t \in Exporting : Lock(t)
    \/ \E t \in Exporting : Stats(t)
    \/ \E t \in Exporting : Cursor(t)
    \/ \E t \in Exporting : Header(t)
    \/ \E t \in Exporting : Stream(t)
    \/ \E t \in Exporting : Rename(t)
    \/ Mutate

DumpSpec == Init /\ [][DumpNext]_vars

\* ------------------------------- start invocations beside a node at work
\* start invocations while the node connects and disconnects blocks
TipNext ==
    \/ Call("start")
    \/ \E t \in Running : Check(t)
    \/ \E t \in Running : ResetAbort(t)
    \/ \E t \in Running : OpenCursor(t)
    \/ \E t \in Running : FindBegin(t)
    \/ \E t \in Running : Loop(t)
    \/ \E t \in Running : Interrupt(t)
    \/ \E t \in Running : Progress(t)
    \/ \E t \in Running : Release1(t)
    \/ \E t \in Running : Release2(t)
    \/ Mutate

TipSpec == Init /\ [][TipNext]_vars

\* ---------------------------------------------------------------- claims

\* the invocation that returned last was action a
Returned(a) == returned.action = a

\* C1: at most one start invocation is between its successful reserve() and
\* its release, and at most one scan body FindScriptPubKey is executing.
C1_OneScanAtATime ==
    /\ NumberIn({t \in Running : StartHolds(t)}) <= 1
    /\ NumberIn({t \in Running : InFind(t)}) <= 1

\* a scan is running while another start has been turned away
C1_Witness ==
    /\ \E t \in Running : InFind(t) /\ t.count > 0
    /\ Returned("start") /\ returned.ret.kind = "busy"
    /\ returned.probed = "start"

\* C2: a start invocation is rejected with "Scan already in progress" only
\* if another start invocation owned the reservation when it called reserve().
C2_BusyOnlyBehindAStart ==
    Returned("start") /\ returned.ret.kind = "busy"
        => returned.probed = "start"

\* C3: a start invocation whose reserve() succeeded has released the
\* reservation exactly once when it returns, whichever way it ends, and
\* nobody releases without having reserved.
C3_ReleasedExactlyOnce ==
    /\ \A t \in Running :
          /\ t.nrel <= 1
          /\ t.nrel = 1 => t.m_could_reserve
          /\ t.nrel = 1 <=> t.pc = "release2"
    /\ returned.nrel = 1 => returned.could
    /\ Returned("start") /\ returned.could => returned.nrel = 1

\* a start invocation ended by the exception of the interruption callback
\* has released
C3_Witness ==
    /\ Returned("start") /\ returned.could
    /\ returned.ret.kind = "error" /\ returned.count = AbortBatch
    /\ returned.nrel = 1

\* C4: a start invocation that owned the reservation when an abort returned
\* true reports success=false, and has visited no record beyond the end of
\* the batch in which the abort returned.
C4_AbortStopsTheScan ==
    Returned("start") /\ returned.ret.kind = "result" /\ returned.acked >= 0
        => /\ ~returned.ret.b
           /\ returned.count <= (returned.acked + 1) * AbortBatch

\* C5: abort returns true only if a start invocation owned the reservation
\* when abort probed it, returns false whenever none did, and does not set
\* g_should_abort_scan on the path that returns false.
C5_AbortReportsAScan ==
    /\ [](Returned("abort") =>
            /\ returned.ret.b => returned.probed = "start"
            /\ returned.probed # "start"
                  => returned.ret.kind = "bool" /\ ~returned.ret.b)
    /\ [][\A t \in Running :
            /\ t.action = "abort"
            /\ t.pc \in {"check", "release", "release2"}
            /\ CopiesIn(t, threads') < CopiesIn(t, threads)
            => g_should_abort_scan' = g_should_abort_scan]_vars

\* C6: an abort invocation made while no other invocation is in flight
\* returns false and leaves the three atomics as it found them, and a scan
\* is stopped by the abort flag only if an abort returned true while that
\* scan owned the reservation.
C6_IdleAbortLeavesNothing ==
    /\ Returned("abort") /\ returned.alone
          => /\ returned.ret.kind = "bool" /\ ~returned.ret.b
             /\ returned.kept
    /\ Returned("start") /\ returned.ret.kind = "result" /\ ~returned.ret.b
          /\ returned.corrupt = 0
          => returned.acked >= 0

\* C7: status returns null whenever no start invocation owned the
\* reservation when status probed it, and returns a progress object only if
\* one did.
C7_StatusReportsAScan ==
    Returned("status") =>
        /\ returned.probed # "start" => returned.ret.kind = "null"
        /\ returned.ret.kind = "progress" => returned.probed = "start"

\* C8: the percentages reported by successive status invocations within one
\* scan never decrease.
C8_ReportsNeverDecrease ==
    [][lastReport' >= lastReport \/ lastReport' = -1]_vars

\* C9: g_scan_progress stays within 0..100, the exhaustion of the cursor
\* sets it to 100 and returns true, and a status invocation that reads the
\* progress of a scan that ended by exhaustion and has not yet released
\* reports 100.
C9_HundredOnExhaustion ==
    /\ [](g_scan_progress \in 0..100)
    /\ [][\A t \in Running : \A u \in BagToSet(threads') :
            /\ t.pc = "loop"
            /\ CopiesIn(t, threads') < CopiesIn(t, threads)
            /\ u.pc = "release" /\ u.ret.kind = "result" /\ u.ret.b
            /\ u.acked = t.acked
            /\ CopiesIn(u, threads') > CopiesIn(u, threads)
            => g_scan_progress' = 100]_vars
    /\ [](Returned("status") /\ returned.exhausted
            => returned.ret.kind = "progress" /\ returned.ret.n = 100)

\* C10: whenever g_scan_in_progress is false, g_scan_progress is 0.
C10_IdleProgressIsZero ==
    ~g_scan_in_progress => g_scan_progress = 0
\* C11: a start invocation rejected as busy leaves the three atomics and the
\* coin store exactly as they were, has opened no cursor and released
\* nothing, and leaves the locals of every other invocation as they were.
C11_BusyChangesNothing ==
    /\ [](Returned("start") /\ returned.ret.kind = "busy"
            => /\ ~returned.could /\ returned.nrel = 0
               /\ ~returned.opened
               /\ returned.count = 0 /\ returned.coins = {})
    /\ [][calls' = calls + 1
            /\ BagCardinality(threads') = BagCardinality(threads)
            => /\ returned'.action = "start" /\ returned'.ret.kind = "busy"
               /\ globals' = globals
               /\ coinsdb' = coinsdb
               /\ threads' = Overlapped(threads)]_vars

\* a start is turned away while a scan stands at a checkpoint with its
\* abort flag raised, and the scan is still there
C11_Witness ==
    /\ Returned("start") /\ returned.ret.kind = "busy"
    /\ g_should_abort_scan
    /\ \E t \in Running : t.pc = "interrupt" /\ t.action = "start"
\* the amount in satoshis that a decimal number of the result stands for
AmountOf(v) == v.whole * COIN + v.frac

RECURSIVE SumOf(_)
SumOf(seq) ==
    IF seq = <<>> THEN 0 ELSE AmountOf(Head(seq).amount) + SumOf(Tail(seq))

\* the positions of the largest store that hold script 1 and script 2
HoldersOf1 == {i \in 1..BigStore : Script(i) = 1}
HoldersOf2 == {i \in 1..BigStore : Script(i) = 2}

\* the records of a store of n records whose script is among the needles
ExpectedMatches(n, needles) ==
    {i \in (IF 1 \in needles THEN HoldersOf1 ELSE {})
              \cup (IF 2 \in needles THEN HoldersOf2 ELSE {}) : i <= n}

\* C12: when a start invocation has returned and FindScriptPubKey returned
\* true (no abort, interruption or decode failure), out_results is exactly
\* the set of records of the store whose script is a needle and count is the
\* number of records of the store; with no needles the result of start is
\* success=true, txouts=N, no unspents and total_amount 0.
C12_ExactMatches ==
    Returned("start") /\ returned.ret.kind = "result" /\ returned.ret.b
        => /\ returned.coins = ExpectedMatches(coinsdb.size, returned.needles)
           /\ returned.count = coinsdb.size
           /\ returned.needles = {}
                  => /\ returned.result.success
                     /\ returned.result.txouts = coinsdb.size
                     /\ returned.result.unspents = <<>>
                     /\ AmountOf(returned.result.total_amount) = 0

\* a scan over the large store has returned true and found the needles on
\* both sides of the checkpoint and at the checkpoint itself
C12_Witness ==
    /\ Returned("start") /\ returned.ret.kind = "result" /\ returned.ret.b
    /\ returned.count = BigStore
    /\ {2, AbortBatch, AbortBatch + 2} \subseteq returned.coins

\* C13: in the result of start, whether the scan completed or stopped
\* early, unspents has exactly one entry per matched outpoint, each with the
\* amount and height of that coin, and total_amount is the sum of the
\* amounts listed.
C13_UnspentsAndTotal ==
    Returned("start") /\ returned.ret.kind = "result"
        => LET u == returned.result.unspents IN
           /\ Len(u) = Cardinality(returned.coins)
           /\ {u[k].outpoint : k \in 1..Len(u)} = returned.coins
           /\ \A k \in 1..Len(u) :
                 /\ AmountOf(u[k].amount) = Amount(u[k].outpoint)
                 /\ u[k].height = Height(u[k].outpoint)
           /\ AmountOf(returned.result.total_amount) = SumOf(u)

\* a scan stopped by abort at the checkpoint returns the two matches it
\* had, whose amounts add up to more than one coin
C13_Witness ==
    /\ Returned("start") /\ returned.ret.kind = "result" /\ ~returned.ret.b
    /\ Len(returned.result.unspents) = 2
    /\ returned.result.total_amount.whole = 1
\* C14: a start invocation whose scan meets a record that cannot be decoded
\* ends with an error, not with a result object, and visits no record
\* behind the one that failed.
C14_DecodeFailureIsAnError ==
    Returned("start") /\ returned.opened /\ returned.corrupt > 0
        => /\ returned.count < returned.corrupt
           /\ returned.ret.kind = "error"

\* C15: a start invocation whose interruption callback signalled stop at a
\* checkpoint returns a result with success=false that lists the matches
\* collected before the checkpoint, and has released the reservation.
C15_ShutdownReturnsPartial ==
    Returned("start") /\ returned.shutdown
        => /\ returned.ret.kind = "result" /\ ~returned.ret.b
           /\ ~returned.result.success
           /\ {returned.result.unspents[k].outpoint :
                   k \in 1..Len(returned.result.unspents)} = returned.coins
           /\ returned.coins =
                  {i \in 1..(returned.count - 1) : Script(i) \in returned.needles}
           /\ returned.nrel = 1
\* the steps of invocation t
StepOf(t) ==
    \/ Check(t) \/ StatusRead(t) \/ AbortSet(t) \/ ResetAbort(t)
    \/ OpenCursor(t) \/ FindBegin(t) \/ Loop(t) \/ Interrupt(t)
    \/ Progress(t) \/ Release1(t) \/ Release2(t)

\* C16: status and abort never wait for a scan: a thread that is free can
\* always begin one, one that is in flight can always take its next step,
\* whatever the other invocations are doing, and it has returned after at
\* most four steps: the exchange, one load or store, and the two stores of
\* a release.
C16_StatusAndAbortNeverWait ==
    /\ BagCardinality(threads) < NumProcs /\ calls < MaxCalls
          => ENABLED Call("status") /\ ENABLED Call("abort")
    /\ \A t \in Running :
          t.action \in {"status", "abort"}
              => /\ t.steps <= 3
                 /\ ENABLED StepOf(t)
    /\ returned.action \in {"status", "abort"} => returned.steps <= 4

\* a status invocation has returned the progress in two steps while the
\* scan it looked at stands in the middle of the large store
C16_Witness ==
    /\ Returned("status") /\ returned.ret.kind = "progress"
    /\ returned.steps = 2
    /\ \E t \in Running :
          /\ t.pc = "loop" /\ t.cursor.size = BigStore
          /\ t.count > 0 /\ t.count < AbortBatch
\* C17: a start invocation one of whose descriptors fails to expand ends
\* with an error without having entered the cs_main block (no flush, no
\* cursor), has visited no record, and has released the reservation it took.
C17_BadDescriptorRejected ==
    /\ \A t \in Running :
          t.badDesc => /\ ~t.opened
                       /\ t.pc \in {"release", "release2"}
                       /\ t.ret.kind = "error"
    /\ Returned("start") /\ returned.badDesc
          => /\ returned.ret.kind = "error"
             /\ ~returned.opened
             /\ returned.count = 0 /\ returned.coins = {}
             /\ returned.could /\ returned.nrel = 1

\* a start with a rejected descriptor has returned and the node is idle
C17_Witness ==
    /\ Returned("start") /\ returned.badDesc /\ returned.nrel = 1
    /\ threads = EmptyBag
    /\ ~g_scan_in_progress /\ g_scan_progress = 0
\* the file that holds the metadata and every record of the store view
FullFile(view) == [k \in 1..(Chunks(view.size) + 1) |-> Cell(view, k - 1)]

\* C18: the file at the final path, when there is one, holds the metadata
\* followed by every record of one view of the store.
C18_FinalPathIsWhole ==
    dir.final # 0
        => \E view \in Stores : /\ view.corrupt = 0
                                 /\ files[dir.final] = FullFile(view)

\* C19: an export that begins while the final path exists is rejected in
\* its first step: it calls neither fopen nor LOCK(cs_main), and that step
\* changes no file, no path and no other export.
C19_ExistingPathRejected ==
    /\ [](\A t \in Exporting : ~t.existed)
    /\ [](exported.existed
            => /\ exported.kind = "error" /\ exported.why = "exists"
               /\ ~exported.fopened /\ ~exported.locked /\ ~exported.renamed
               /\ exported.steps = 1)
    /\ [][dir.final # 0 /\ calls' = calls + 1
            => /\ exported'.existed
               /\ dir' = dir /\ files' = files
               /\ cs_main' = cs_main /\ coinsdb' = coinsdb
               /\ exports' = exports]_vars

\* an export is rejected while the final path holds a whole file and
\* another export, begun earlier, is still at work
C19_Witness ==
    /\ exported.existed /\ exported.why = "exists"
    /\ dir.final # 0
    /\ exports # EmptyBag

\* C20: an export that fails after fopen, by the stats, the tip lookup, a
\* write or the interruption point, has not called fs::rename, and the file
\* at the final path changes only in a step of an export that returns its
\* result.
C20_FailedExportNotPromoted ==
    /\ [](exported.why \in {"stats", "tip", "write", "interrupt"}
            => /\ exported.kind = "error"
               /\ exported.fopened
               /\ ~exported.renamed)
    /\ [](\A t \in Exporting : t.failed = "none")
    /\ [][dir'.final # dir.final
            => exported'.kind = "result" /\ exported'.renamed]_vars

\* an export was cancelled by the interruption point after it had written
\* the metadata and a chunk, and nothing is at the final path
C20_Witness ==
    /\ exported.why = "interrupt" /\ exported.fopened
    /\ dir.final = 0 /\ dir.temp # 0
    /\ Len(files[dir.temp]) = 2

RECURSIVE BodyCount(_)
BodyCount(body) ==
    IF body = <<>> THEN 0 ELSE RecordsOf(Head(body)) + BodyCount(Tail(body))

\* C21: the file at the final path, when there is one, begins with the
\* metadata, and the coin_count of the metadata is the number of records in
\* the body behind it; an export that returns its result returns as
\* coins_written the number of records in the body of the file it renamed.
C21_CountMatchesBody ==
    dir.final # 0
        => LET f == files[dir.final] IN
           /\ f # <<>>
           /\ Head(f).chunk = 0
           /\ Head(f).view.size = BodyCount(Tail(f))
           /\ exported.kind = "result"
                  => exported.coins_written = BodyCount(Tail(f))

\* C22: an export that has streamed a number of records different from the
\* coin_count of its metadata ends with an error and has not called
\* fs::rename.
C22_MismatchIsFatal ==
    exported.action = "export" /\ exported.written # exported.coins_written
        => /\ exported.kind = "error"
           /\ ~exported.renamed

\* the exports that stand inside the cs_main block
InBlock == {t \in Exporting : t.pc \in {"stats", "cursor"}}

\* C23: cs_main is held exactly while one export stands at the stats or at
\* the cursor creation, and the store is not written while it is held; the
\* store GetUTXOStats read and the store the cursor iterates are the store
\* as it was when the export took the lock, whatever is written to the store
\* afterwards; the metadata and the records are written with the lock
\* released, and an export that is alone writes the metadata and the chunks
\* of that one store.
C23_OneConsistentInstant ==
    /\ [](cs_main <=> InBlock # {})
    /\ [](\A t \in InBlock : exports[t] = 1 /\ InBlock = {t})
    /\ [](\A t \in Exporting :
             /\ t.pc \in {"cursor", "header", "stream"} => t.stats = t.atLock
             /\ t.pc \in {"header", "stream"} => t.cursor = t.atLock
             /\ t.pc = "rename" /\ t.failed = "none"
                    => t.stats = t.atLock /\ t.cursor = t.atLock
             /\ calls = 1 /\ t.fd # 0
                    => \A k \in 1..Len(files[t.fd]) :
                          files[t.fd][k] = Cell(t.atLock, k - 1))
    /\ [][cs_main => coinsdb' = coinsdb]_vars
    /\ [][files' # files /\ BagCardinality(exports) = 1 => ~cs_main]_vars

\* an export streams the second chunk of the large store it took the lock
\* on while the node holds another store by now
C23_Witness ==
    \E t \in Exporting :
        /\ t.pc = "rename" /\ t.failed = "none"
        /\ t.atLock.size = BigStore /\ coinsdb # t.atLock
        /\ t.fd # 0 /\ calls = 1
        /\ Len(files[t.fd]) = Chunks(BigStore) + 1

\* C24: an export writes the metadata once, at the start of the file and
\* before any record, then the chunks of its cursor in cursor order, one
\* cell behind the other; when it reaches fs::rename without a failure it
\* has written every record of the cursor, and it writes nothing from then
\* on.
C24_HeaderThenEveryRecord ==
    /\ [](\A t \in Exporting :
             /\ t.pc = "header" => t.pos = 0 /\ t.iter = 0 /\ t.written = 0
             /\ t.pc = "stream" => t.pos = t.iter + 1
             /\ t.pc = "rename" /\ t.failed = "none"
                    => /\ t.pos = Chunks(t.cursor.size) + 1
                       /\ t.iter = Chunks(t.cursor.size)
                       /\ t.written = t.cursor.size)
    /\ [][calls = 1 /\ files' # files /\ files # <<>>
            => \E t \in Exporting :
                  /\ t.fd # 0
                  /\ files'[t.fd] = Append(files[t.fd],
                                           Cell(t.cursor, Len(files[t.fd])))]_vars
    /\ [][(\E t \in Exporting : t.pc = "rename") /\ exports' = EmptyBag
            => files' = files]_vars

C26_CheckNeverFails ==
    returned.ret.kind = "error" => returned.could

\* C27: whenever no start, status or abort invocation is in flight, the scan
\* state is idle: g_scan_in_progress is false.
C27_IdleWhenNothingRuns ==
    threads = EmptyBag => ~g_scan_in_progress

\* C28: a start invocation whose scan stopped at the abort flag (it returns
\* false from a cursor without an undecodable record) returns success=false,
\* txouts a positive multiple of 8192, and as matches exactly the records
\* with a needle script among those in front of the record it stopped at.
C28_AbortedScanResult ==
    (Returned("start") /\ returned.ret.kind = "result" /\ ~returned.ret.b
        /\ returned.corrupt = 0)
        => /\ ~returned.result.success
           /\ returned.result.txouts = returned.count
           /\ returned.count > 0 /\ returned.count % 8192 = 0
           /\ returned.coins =
                  ExpectedMatches(returned.count - 1, returned.needles)
           /\ {returned.result.unspents[k].outpoint :
                   k \in 1..Len(returned.result.unspents)} = returned.coins

\* a scan for both scripts was aborted at record 8192, which holds one of
\* them: the result lists the two matches in front of it and not that record
C28_Witness ==
    /\ Returned("start") /\ returned.ret.kind = "result" /\ ~returned.ret.b
    /\ returned.corrupt = 0 /\ returned.count = 8192
    /\ Script(8192) \in returned.needles
    /\ returned.coins = {2, 4098}

\* C29: a scan stands at the interruption callback and at the read of the
\* abort flag only with a count that is a positive multiple of 8192, and
\* between two accesses to shared state only with a count that is a
\* multiple of 256; from there it goes on to the next multiple of 256,
\* where it recomputes the progress, or to the callback if that is a
\* multiple of 8192 too, and skips none.  A scan that opened its cursor on
\* a store of fewer than 8192 records without an undecodable record never
\* reads the abort flag and returns success=true with every record counted.
C29_CheckpointsOfTheScan ==
    /\ [](\A t \in Running :
             /\ t.pc \in {"interrupt", "progress"}
                    => /\ t.count > 0 /\ t.count % 8192 = 0
                       /\ t.cursor.size >= 8192
             /\ t.pc = "loop" => t.count % 256 = 0)
    /\ [](Returned("start") /\ returned.opened /\ returned.corrupt = 0
             /\ coinsdb.size < 8192
            => /\ returned.ret.kind = "result" /\ returned.ret.b
               /\ returned.result.success
               /\ returned.count = coinsdb.size)
    /\ [][\A t \in Running :
             t.pc = "loop"
             /\ (\E u \in BagToSet(threads') :
                    u.pc \in {"loop", "interrupt"} /\ u.count > t.count)
             => \E u \in BagToSet(threads') :
                   /\ u.count = (t.count \div 256 + 1) * 256
                   /\ u.pc = "interrupt" <=> u.count % 8192 = 0
                   /\ u.pc = "loop"
                          => g_scan_progress' =
                                 ProgressOf(KeyHigh(u.cursor.size, u.count))]_vars

\* abort returned true while a scan of the store of 3 records held the
\* reservation, and the scan has returned success=true with the flag still
\* raised
C29_Witness ==
    /\ Returned("start") /\ returned.ret.kind = "result" /\ returned.ret.b
    /\ returned.count = 3 /\ returned.acked = 0
    /\ g_should_abort_scan

\* C30: an export in the loop has called the interruption point once per
\* 5000 cursor entries it has passed, the first time in front of the first
\* entry, so it has written at most 5000 records per call; an export that
\* reaches fs::rename without a failure has called it once for each of the
\* entries 0, 5000, 10000, ... of its cursor, and an export cancelled by the
\* interruption point has written at most 5000 records since the call
\* before.
C30_InterruptionEvery5000 ==
    /\ \A t \in Exporting :
          /\ t.pc \in {"lock", "stats", "cursor", "header"}
                 => t.polled = 0 /\ t.written = 0
          /\ t.pc = "stream"
                 => /\ t.polled * 5000 < t.cursor.size
                    /\ t.written <= t.polled * 5000
                    /\ t.written >= t.polled * 5000 - 1
          /\ t.pc = "rename" /\ t.failed = "none"
                 => /\ t.polled = (t.cursor.size + 4999) \div 5000
                    /\ t.written <= t.polled * 5000
                    /\ t.cursor.size > 0 => t.polled >= 1
    /\ exported.action = "export"
          => /\ exported.written <= exported.polled * 5000
             /\ exported.why = "interrupt"
                    => /\ exported.polled >= 1
                       /\ exported.written <= (exported.polled - 1) * 5000
                       /\ exported.written >= (exported.polled - 1) * 5000 - 1
             /\ exported.kind = "result" /\ exported.coins_written > 0
                    => exported.polled >= 1

\* an export of the large store was cancelled by the second call of the
\* interruption point, in front of record 5000, with 5000 records written
C30_Witness ==
    /\ exported.why = "interrupt" /\ exported.polled = 2
    /\ exported.written = 5000

\* the arrays of up to three scan objects that expand, each to a set of the
\* scripts 0, 1 and 2
ScanObjectLists ==
    LET D == {Desc(S) : S \in SUBSET {0, 1, 2}}
    IN {<<>>} \cup {<<a>> : a \in D} \cup {<<a, b>> : a \in D, b \in D}
           \cup {<<a, b, c>> : a \in D, b \in D, c \in D}

\* the first scan object of objs that expands to the script s
FirstWith(objs, s) ==
    CHOOSE k \in 1..Len(objs) :
        /\ s \in objs[k].scripts
        /\ \A j \in 1..(k - 1) : s \notin objs[j].scripts

\* for every array of scan objects that expand, the needle set is the union
\* of their scripts, the keys of descriptors are the needles, and a needle
\* is annotated from the first scan object that expands to it
ExpandCollapsesDuplicates ==
    \A objs \in ScanObjectLists :
        LET e == Expand(objs) IN
        /\ e.ok
        /\ e.needles = UNION {objs[k].scripts : k \in 1..Len(objs)}
        /\ DOMAIN e.descriptors = e.needles
        /\ \A s \in e.needles :
              e.descriptors[s] = Inferred(s, FirstWith(objs, s))

\* the needles and the map descriptors of an invocation: none in front of
\* the loop over the scan objects, behind it those of a request whose scan
\* objects all expand
RequestedScans ==
    {[needles |-> {}, descriptors |-> <<>>]}
        \cup {[needles     |-> Expand(req.scanobjects).needles,
                descriptors |-> Expand(req.scanobjects).descriptors] :
                  req \in {r \in Requests :
                              r.hasObjects /\ Expand(r.scanobjects).ok}}

\* C31: the needle set start builds is the union of the scripts of its scan
\* objects, a script of several of them being in it once; the map
\* descriptors has the needles as its keys and annotates a script that
\* several scan objects expand to from the first of them; and the needles
\* and the map a start invocation scans with are those of its request.
C31_NeedlesAndDescriptors ==
    /\ ExpandCollapsesDuplicates
    /\ \A t \in Running :
          /\ DOMAIN t.descriptors = t.needles
          /\ [needles |-> t.needles, descriptors |-> t.descriptors]
                 \in RequestedScans
    /\ DOMAIN returned.descriptors = returned.needles

\* a start invocation scans with the needles of two scan objects that both
\* expand to script 1, annotated from the first of them, and script 2 from
\* the second
C31_Witness ==
    \E t \in Running :
        /\ t.action = "start" /\ t.pc = "loop"
        /\ t.needles = {1, 2}
        /\ t.descriptors[1] = Inferred(1, 1)
        /\ t.descriptors[2] = Inferred(2, 2)

\* C32: a start invocation that has opened its cursor holds as tip the tip
\* of the chain whose coins the cursor iterates, the store is not written
\* in the step that flushes, opens the cursor and reads the tip, cs_main is
\* not held while FindScriptPubKey runs, and the height and bestblock of the
\* result are those of that tip, whatever blocks the node has connected
\* since.
C32_TipOfTheCursor ==
    /\ [](\A t \in Running :
             /\ t.opened => t.tip = ChainTip(t.cursor)
             /\ InFind(t) => ~cs_main)
    /\ [](Returned("start") /\ returned.ret.kind = "result"
            => /\ returned.opened
               /\ returned.result.height = ChainTip(returned.cursor).nHeight
               /\ returned.result.bestblock = ChainTip(returned.cursor).hash)
    /\ [][\A t \in Running :
             t.pc = "cursor" /\ threads' # threads /\ t \notin BagToSet(threads')
                 => /\ coinsdb' = coinsdb /\ ~cs_main /\ ~cs_main'
                    /\ \E u \in BagToSet(threads') :
                          u.pc = "find" /\ u.cursor = coinsdb
                          /\ u.tip = ChainTip(coinsdb)]_vars

\* a scan of the large store has returned its result after the node went on
\* to another store: height and bestblock are those of the large store
C32_Witness ==
    /\ Returned("start") /\ returned.ret.kind = "result" /\ returned.ret.b
    /\ returned.cursor.size = BigStore /\ coinsdb.size # BigStore
    /\ returned.result.bestblock = returned.cursor
    /\ returned.result.bestblock # ChainTip(coinsdb).hash

\* C33: no step changes the contents of the file at the final path; the
\* step in which an export returns its result leaves a file at the final
\* path and none at the temporary path, and the result holds coins_written,
\* base_hash and base_height of the store the export read and the final
\* path.
C33_OnlyTheTemporaryPathIsWritten ==
    /\ [][dir.final # 0 => files'[dir.final] = files[dir.final]]_vars
    /\ [][exported' # exported /\ exported'.kind = "result"
            => /\ dir'.final # 0 /\ dir'.temp = 0
               /\ exported'.path = "path"
               /\ \E db \in Stores :
                     /\ exported'.coins_written = db.size
                     /\ exported'.base_hash = ChainTip(db).hash
                     /\ exported'.base_height = ChainTip(db).nHeight]_vars
====
